---- MODULE Spec2Model ----
\* FunctionGraph (theano/gof/fg.py): membership sets, client lists, import,
\* prune, change_input and replace, over a fixed library of variables and
\* apply nodes.  Slot indices are 0-based as in the source; a client site is
\* the pair <<consumer, i>> with consumer an apply node or "output".
\*   Spec          rewrites (change_input, replace, replace_all) of one
\*                 constructed graph
\*   SpecTwo       two graphs over the same variables and nodes, and disown
\*   SpecCtor      the constructor, over every short outputs list
\*   SpecFeatures  extend, remove_feature, execute_callbacks,
\*                 collect_callbacks and clone
\*   SpecObserved  change_input with a feature that calls change_input itself
\*   SpecLong      longer runs of change_input over two new variables
EXTENDS Integers, Sequences, FiniteSets, TLC

\* ------------------------------------------------------------------
\* The expression library the graph is built from.
\*   N(x, y) -> a, b     a two-output apply node
\*   M(b)    -> m
\*   P(b)    -> p
\*   F(m)    -> f
\*   Q(u)    -> q        u is neither declared, constant nor produced
\*   V(m)    -> v        an operator whose view_map has a value that is no list
\* x, y are the declared inputs, k is a Constant, t is a Constant of
\* another type.
\* ------------------------------------------------------------------
Vars == {"x", "y", "k", "u", "t", "a", "b", "m", "p", "f", "q", "v"}

Nodes == {"N", "M", "P", "F", "Q", "V"}

NoOwner == "None"

owner(r) ==
    CASE r \in {"a", "b"} -> "N"
      [] r = "m" -> "M"
      [] r = "p" -> "P"
      [] r = "f" -> "F"
      [] r = "q" -> "Q"
      [] r = "v" -> "V"
      [] OTHER -> NoOwner

type(r) == IF r = "t" THEN "T2" ELSE "T1"

isConstant(r) == r \in {"k", "t"}

node_outputs(node) ==
    CASE node = "N" -> <<"a", "b">>
      [] node = "M" -> <<"m">>
      [] node = "P" -> <<"p">>
      [] node = "F" -> <<"f">>
      [] node = "Q" -> <<"q">>
      [] node = "V" -> <<"v">>

\* node.inputs of every apply node before any graph has touched it
InitNodeInputs ==
    [node \in Nodes |->
        CASE node = "N" -> <<"x", "y">>
          [] node = "M" -> <<"b">>
          [] node = "P" -> <<"b">>
          [] node = "F" -> <<"m">>
          [] node = "Q" -> <<"u">>
          [] node = "V" -> <<"m">>]

\* the inputs argument of the constructor
DeclaredInputs == <<"x", "y">>

\* the outputs arguments the constructor is called with
InitOutputs == {<<"a", "m">>, <<"f", "p">>, <<"p", "x">>, <<"k", "b">>}

\* ------------------------------------------------------------------
\* The features offered to the graph (theano/gof/toolbox.py).
\*   validator   the ReplaceValidate instance the constructor attaches
\*   validator2  another ReplaceValidate instance: its on_attach raises
\*               AlreadyThere while the graph carries the methods a
\*               ReplaceValidate installed
\*   listener    defines on_attach, on_detach and all three callbacks
\*   bare        defines on_import only
\* ------------------------------------------------------------------
Features == {"validator", "validator2", "listener", "bare"}

\* the ReplaceValidate the constructor of a clone attaches to it, which is
\* none of Features
CloneValidator == "validator of the clone"

ReplaceValidates == {"validator", "validator2", CloneValidator}

has_on_attach(feature) == feature # "bare"

has_on_detach(feature) == feature # "bare"

\* getattr(feature, name) succeeds
has_callback(feature, name) ==
    CASE feature \in ReplaceValidates -> name = "on_change_input"
      [] feature = "listener" -> TRUE
      [] feature = "bare" -> name = "on_import"

CallbackNames == {"on_import", "on_change_input", "on_prune"}

\* longest outputs argument the constructor is tried with
MaxOutputs == 2

\* number of calls made on the feature list of one graph
MaxFeatureCalls == 3

\* number of public calls made on one graph
MaxCalls == 2

\* number of calls in the longer runs of change_input
MaxLongCalls == 3

\* calls of change_input with the re-referencing feature attached
MaxObservedCalls == 2

VARIABLES
    node_inputs,   \* node.inputs, for every apply node of the library
    outputs,       \* self.outputs
    nodes,         \* self.nodes
    variables,     \* self.variables
    clients,       \* r.clients, for every variable
    r_fgraph,      \* r.fgraph: "none" (no attribute), "self" or another instance
    node_fgraph,   \* node.fgraph: "none" (no attribute), "self" or another instance
    events,        \* what execute_callbacks dispatched in the last public call
    views,         \* the graph as it stood at each of these dispatches
    result,        \* "ok" or the exception the last public call raised
    call,          \* the last public call and its arguments
    ncalls,        \* public calls made so far
    disowned,      \* disown() has been called on this graph
    other,         \* a second FunctionGraph over the same library objects
    features,      \* self._features
    attach_calls,  \* how often on_attach of each feature has run
    detach_calls,  \* how often on_detach of each feature has run
    heard,         \* how many callbacks each feature has received
    raised         \* some public call made so far has raised

graph == <<node_inputs, outputs, nodes, variables, clients, r_fgraph, node_fgraph>>

registry == <<features, attach_calls, detach_calls, heard>>

vars == <<node_inputs, outputs, nodes, variables, clients, r_fgraph, node_fgraph,
          events, views, result, call, ncalls, disowned, other, features,
          attach_calls, detach_calls, heard, raised>>

\* ------------------------------------------------------------------
\* Sequence helpers (Python list operations)
\* ------------------------------------------------------------------
Range(s) == {s[j] : j \in 1..Len(s)}

Contains(s, e) == \E j \in 1..Len(s) : s[j] = e

\* list.remove(e): drop the first occurrence
RemoveFirst(s, e) ==
    LET j == CHOOSE j \in 1..Len(s) : s[j] = e /\ \A h \in 1..(j - 1) : s[h] # e
    IN  SubSeq(s, 1, j - 1) \o SubSeq(s, j + 1, Len(s))

\* ------------------------------------------------------------------
\* A graph value threaded through the methods; err is the exception in
\* flight ("" for none).  Once err is set every later step is skipped.
\* ------------------------------------------------------------------
Raise(g, e) == [g EXCEPT !.err = e]

Ok(g) == g.err = ""

Event(name, node, i, r, new_r) ==
    [name |-> name, node |-> node, i |-> i, r |-> r, new_r |-> new_r]

\* what a feature finds when it looks at the graph from inside a callback
View(g) ==
    [node_inputs |-> g.node_inputs, outputs |-> g.outputs, nodes |-> g.nodes,
     variables |-> g.variables, clients |-> g.clients]

\* the loop of execute_callbacks(name, ...) over self._features: every
\* listed feature that defines the callback receives it; reg is anything
\* with the fields features and heard
RECURSIVE call_features(_, _, _)
call_features(reg, name, j) ==
    IF j > Len(reg.features) THEN reg
    ELSE LET feature == reg.features[j]
         IN  call_features(IF has_callback(feature, name)
                           THEN [reg EXCEPT !.heard[feature] = @ + 1]
                           ELSE reg,
                           name, j + 1)

\* execute_callbacks: the attached features receive the event in order, each
\* with the graph as it stands at that moment; events and views log the
\* dispatch
execute_callbacks(g, ev) ==
    call_features([g EXCEPT !.events = Append(@, ev), !.views = Append(@, View(g))],
                  ev.name, 1)

\* the variable a consumer slot holds
Slot(g, node, i) ==
    IF node = "output" THEN g.outputs[i + 1] ELSE g.node_inputs[node][i + 1]

\* ------------------------------------------------------------------
\* graph.io_toposort / graph.general_toposort / graph.stack_search
\* (theano/gof/graph.py).  Objects of the traversal are variables and
\* apply nodes; i is the frontier at which the traversal stops.
\* ------------------------------------------------------------------
Objs == Vars \cup Nodes

\* deps(obj) of io_toposort
deps(g, iset, obj) ==
    IF obj \in iset THEN <<>>
    ELSE IF obj \in Vars
         THEN (IF owner(obj) # NoOwner THEN <<owner(obj)>> ELSE <<>>)
         ELSE g.node_inputs[obj]

\* expand_inv.setdefault(r, []).append(l) for every r of expand_l
RECURSIVE add_inv(_, _, _, _)
add_inv(inv, expand_l, j, l) ==
    IF j > Len(expand_l) THEN inv
    ELSE add_inv([inv EXCEPT ![expand_l[j]] = Append(@, l)], expand_l, j + 1, l)

\* stack_search(start, expand, 'dfs', build_inv=True)
RECURSIVE stack_search(_, _, _, _, _)
stack_search(g, iset, start, rval_list, expand_inv) ==
    IF start = <<>> THEN [reachable |-> rval_list, clients |-> expand_inv]
    ELSE LET l == start[Len(start)]
             rest == SubSeq(start, 1, Len(start) - 1)
         IN  IF Contains(rval_list, l)
             THEN stack_search(g, iset, rest, rval_list, expand_inv)
             ELSE LET expand_l == deps(g, iset, l)
                  IN  stack_search(g, iset, rest \o expand_l, Append(rval_list, l),
                                   add_inv(expand_inv, expand_l, 1, l))

\* the inner loop of general_toposort over clients.get(node, [])
RECURSIVE release_clients(_, _, _, _, _)
release_clients(cl, j, node, sources, deps_cache) ==
    IF j > Len(cl) THEN [sources |-> sources, deps_cache |-> deps_cache]
    ELSE LET client == cl[j]
             IsNot(a) == a # node
             left == SelectSeq(deps_cache[client], IsNot)
         IN  release_clients(cl, j + 1, node,
                             IF left = <<>> THEN Append(sources, client) ELSE sources,
                             [deps_cache EXCEPT ![client] = left])

\* the while loop of general_toposort
RECURSIVE drain_sources(_, _, _, _)
drain_sources(sources, rlist, deps_cache, inv) ==
    IF sources = <<>> THEN rlist
    ELSE LET node == Head(sources)
         IN  IF Contains(rlist, node)
             THEN drain_sources(Tail(sources), rlist, deps_cache, inv)
             ELSE LET nxt == release_clients(inv[node], 1, node, Tail(sources), deps_cache)
                  IN  drain_sources(nxt.sources, Append(rlist, node), nxt.deps_cache, inv)

\* io_toposort(i, o): [err, order]; err is "ValueError" when the part of the
\* graph above the frontier contains a cycle
io_toposort(g, i, o) ==
    LET found == stack_search(g, i, o, <<>>, [obj \in Objs |-> <<>>])
        deps_cache == [obj \in Objs |-> deps(g, i, obj)]
        IsSource(obj) == deps_cache[obj] = <<>>
        sources == SelectSeq(found.reachable, IsSource)
        rlist == drain_sources(sources, <<>>, deps_cache, found.clients)
        IsApply(obj) == obj \in Nodes
    IN  IF Len(rlist) # Len(found.reachable)
        THEN [err |-> "ValueError", order |-> <<>>]
        ELSE [err |-> "", order |-> SelectSeq(rlist, IsApply)]

\* graph.variables(i, o): every variable met walking from the outputs up,
\* taking all inputs and all outputs of each owner, stopping at i
RECURSIVE graph_variables(_, _, _)
graph_variables(g, i, seen) ==
    LET more == UNION {Range(g.node_inputs[owner(r)]) \cup Range(node_outputs(owner(r))) :
                       r \in {s \in seen : owner(s) # NoOwner /\ s \notin i}}
    IN  IF more \subseteq seen THEN seen ELSE graph_variables(g, i, seen \cup more)

\* graph.ops(i, o): owners of the variables met that are neither in i nor orphans
graph_ops(g, i, o) ==
    {owner(r) : r \in {s \in graph_variables(g, i, o) : s \notin i /\ owner(s) # NoOwner}}

\* ------------------------------------------------------------------
\* Setup of variables and nodes
\* ------------------------------------------------------------------
\* __setup_r__ without the test of r.fgraph
setup_r_takes_over(g, r) ==
    IF ~Ok(g) THEN g
    ELSE [g EXCEPT !.r_fgraph[r] = "self", !.clients[r] = <<>>]

\* __setup_r__
setup_r(g, r) ==
    IF ~Ok(g) THEN g
    ELSE IF g.r_fgraph[r] \notin {"none", "self"} THEN Raise(g, "Exception")
    ELSE [g EXCEPT !.r_fgraph[r] = "self", !.clients[r] = <<>>]

\* operators whose view_map or destroy_map has a value that is no list or tuple
BadMapNodes == {"V"}

\* __setup_node__
setup_node(g, node) ==
    IF ~Ok(g) THEN g
    ELSE IF g.node_fgraph[node] \notin {"none", "self"} THEN Raise(g, "Exception")
    ELSE IF node \in BadMapNodes THEN Raise(g, "Exception")
    ELSE [g EXCEPT !.node_fgraph[node] = "self"]

\* ------------------------------------------------------------------
\* clients
\* ------------------------------------------------------------------
\* r has the attribute clients: __setup_r__ sets it together with r.fgraph
\* (155-156) and disown deletes the two together (194-195)
has_clients(g, r) == g.r_fgraph[r] # "none"

\* __add_clients__(r, [entry])
add_clients(g, r, entry) ==
    IF ~Ok(g) THEN g
    ELSE IF ~has_clients(g, r) THEN Raise(g, "AttributeError")
    ELSE IF Contains(g.clients[r], entry) THEN Raise(g, "AssertionError")
    ELSE [g EXCEPT !.clients[r] = Append(@, entry)]

RECURSIVE remove_clients(_, _, _, _)
RECURSIVE prune_r(_, _)
RECURSIVE prune(_, _)
RECURSIVE prune_inputs(_, _, _)

\* remove_clients that prunes at once whatever the prune argument says
remove_clients_prunes_at_once(g, r, entry, doPrune) ==
    IF ~Ok(g) THEN [g |-> g, flag |-> FALSE]
    ELSE IF ~has_clients(g, r)
         THEN [g |-> Raise(g, "AttributeError"), flag |-> FALSE]
    ELSE IF ~Contains(g.clients[r], entry)
         THEN [g |-> Raise(g, "ValueError"), flag |-> FALSE]
    ELSE LET left == RemoveFirst(g.clients[r], entry)
             g1 == [g EXCEPT !.clients[r] = left]
         IN  IF Contains(left, entry)
             THEN [g |-> Raise(g1, "AssertionError"), flag |-> FALSE]
             ELSE IF left = <<>>
                  THEN [g |-> prune_r(g1, r), flag |-> FALSE]
                  ELSE [g |-> g1, flag |-> FALSE]

\* __remove_clients__(r, [entry], prune): [g, flag], flag the returned boolean
remove_clients(g, r, entry, doPrune) ==
    IF ~Ok(g) THEN [g |-> g, flag |-> FALSE]
    ELSE IF ~has_clients(g, r)
         THEN [g |-> Raise(g, "AttributeError"), flag |-> FALSE]
    ELSE IF ~Contains(g.clients[r], entry)
         THEN [g |-> Raise(g, "ValueError"), flag |-> FALSE]
    ELSE LET left == RemoveFirst(g.clients[r], entry)
             g1 == [g EXCEPT !.clients[r] = left]
         IN  IF Contains(left, entry)
             THEN [g |-> Raise(g1, "AssertionError"), flag |-> FALSE]
             ELSE IF left = <<>>
                  THEN (IF doPrune THEN [g |-> prune_r(g1, r), flag |-> FALSE]
                                   ELSE [g |-> g1, flag |-> TRUE])
                  ELSE [g |-> g1, flag |-> FALSE]

\* __prune_r__([r])
prune_r(g, r) ==
    IF ~Ok(g) THEN g
    ELSE LET g1 == IF owner(r) # NoOwner THEN prune(g, owner(r)) ELSE g
         IN  IF ~Ok(g1) THEN g1
             ELSE IF ~has_clients(g1, r) THEN Raise(g1, "AttributeError")
             ELSE IF g1.clients[r] = <<>> /\ r \in g1.variables
                  THEN [g1 EXCEPT !.variables = @ \ {r}]
                  ELSE g1

\* the guard of __prune__ looking at the graph's outputs only
output_in_use_as_output_only(g, node) ==
    \E output \in Range(node_outputs(node)) : output \in Range(g.outputs)

\* the guard of __prune__: some output is used or is an output of the graph
output_in_use(g, node) ==
    \E output \in Range(node_outputs(node)) :
        g.clients[output] # <<>> \/ output \in Range(g.outputs)

\* the loop of __prune__ over node.outputs from the j-th on: the exception
\* it raises before it returns or ends, or "": output.clients is read
\* first, and 'output in self.outputs' when the list is empty, which
\* raises TypeError once self.outputs is None
RECURSIVE outputs_unreadable(_, _, _)
outputs_unreadable(g, node, j) ==
    IF j > Len(node_outputs(node)) THEN ""
    ELSE IF ~has_clients(g, node_outputs(node)[j]) THEN "AttributeError"
    ELSE IF g.clients[node_outputs(node)[j]] # <<>> THEN ""
    ELSE IF g.disowned THEN "TypeError"
    ELSE IF node_outputs(node)[j] \in Range(g.outputs) THEN ""
    ELSE outputs_unreadable(g, node, j + 1)

\* __prune__
prune(g, node) ==
    IF ~Ok(g) THEN g
    ELSE IF node \notin g.nodes THEN Raise(g, "Exception")
    ELSE IF g.node_fgraph[node] # "self" THEN Raise(g, "AssertionError")
    ELSE IF outputs_unreadable(g, node, 1) # "" THEN Raise(g, outputs_unreadable(g, node, 1))
    ELSE IF output_in_use(g, node) THEN g
    ELSE LET g1 == [g EXCEPT !.nodes = @ \ {node},
                             !.variables = @ \ Range(node_outputs(node))]
             g2 == execute_callbacks(g1, Event("on_prune", node, -1, "-", "-"))
         IN  prune_inputs(g2, node, 0)

\* the loop of __prune__ over enumerate(node.inputs)
prune_inputs(g, node, i) ==
    IF ~Ok(g) \/ i >= Len(g.node_inputs[node]) THEN g
    ELSE prune_inputs(remove_clients(g, g.node_inputs[node][i + 1], <<node, i>>, TRUE).g,
                      node, i + 1)

\* ------------------------------------------------------------------
\* import
\* ------------------------------------------------------------------
\* the missing-input test with the Constant test inverted
missing_input_inverted(g, r) ==
    IF owner(r) # NoOwner \/ ~isConstant(r) THEN ""
    ELSE IF g.disowned THEN "TypeError"
    ELSE IF r \notin Range(g.inputs) THEN "MissingInputError"
    ELSE ""

\* r.owner is None and not isinstance(r, graph.Constant) and r not in
\* self.inputs: the exception the test leads to, or ""; 'r not in
\* self.inputs' raises TypeError once self.inputs is None
missing_input(g, r) ==
    IF owner(r) # NoOwner \/ isConstant(r) THEN ""
    ELSE IF g.disowned THEN "TypeError"
    ELSE IF r \notin Range(g.inputs) THEN "MissingInputError"
    ELSE ""

\* the check loop of __import__ over node.inputs: the exception raised, or ""
RECURSIVE check_inputs(_, _, _)
check_inputs(g, node, i) ==
    IF i >= Len(g.node_inputs[node]) THEN ""
    ELSE LET r == g.node_inputs[node][i + 1]
         IN  IF g.r_fgraph[r] \notin {"none", "self"} THEN "Exception"
             ELSE IF missing_input(g, r) # "" THEN missing_input(g, r)
             ELSE check_inputs(g, node, i + 1)

\* the check loop of __import__ over new_nodes: the exception raised, or ""
RECURSIVE check_new_nodes(_, _, _)
check_new_nodes(g, new_nodes, j) ==
    IF j > Len(new_nodes) THEN ""
    ELSE IF g.node_fgraph[new_nodes[j]] \notin {"none", "self"} THEN "Exception"
    ELSE LET e == check_inputs(g, new_nodes[j], 0)
         IN  IF e # "" THEN e ELSE check_new_nodes(g, new_nodes, j + 1)

\* for output in node.outputs: __setup_r__(output); variables.add(output)
RECURSIVE install_outputs(_, _, _)
install_outputs(g, node, j) ==
    IF ~Ok(g) \/ j > Len(node_outputs(node)) THEN g
    ELSE LET output == node_outputs(node)[j]
             g1 == setup_r(g, output)
         IN  install_outputs(IF Ok(g1) THEN [g1 EXCEPT !.variables = @ \cup {output}] ELSE g1,
                             node, j + 1)

\* for i, input in enumerate(node.inputs): setup if unknown, then add the client
RECURSIVE install_inputs(_, _, _)
install_inputs(g, node, i) ==
    IF ~Ok(g) \/ i >= Len(g.node_inputs[node]) THEN g
    ELSE LET input == g.node_inputs[node][i + 1]
             g1 == IF input \notin g.variables
                   THEN LET s == setup_r(g, input)
                        IN  IF Ok(s) THEN [s EXCEPT !.variables = @ \cup {input}] ELSE s
                   ELSE g
         IN  install_inputs(add_clients(g1, input, <<node, i>>), node, i + 1)

\* the body of the install loop of __import__ for one node
install_node(g, node) ==
    IF ~Ok(g) THEN g
    ELSE IF node \in g.nodes THEN Raise(g, "AssertionError")
    ELSE LET g1 == setup_node(g, node)
             g2 == IF Ok(g1) THEN [g1 EXCEPT !.nodes = @ \cup {node}] ELSE g1
             g3 == install_inputs(install_outputs(g2, node, 1), node, 0)
         IN  IF Ok(g3)
             THEN execute_callbacks(g3, Event("on_import", node, -1, "-", "-"))
             ELSE g3

\* the install loop of __import__
RECURSIVE install_nodes(_, _, _)
install_nodes(g, new_nodes, j) ==
    IF ~Ok(g) \/ j > Len(new_nodes) THEN g
    ELSE install_nodes(install_node(g, new_nodes[j]), new_nodes, j + 1)

\* __import__(node)
import(g, node) ==
    IF ~Ok(g) THEN g
    ELSE LET topo == io_toposort(g, g.variables, node_outputs(node))
         IN  IF topo.err # "" THEN Raise(g, topo.err)
             ELSE LET e == check_new_nodes(g, topo.order, 1)
                  IN  IF e # "" THEN Raise(g, e)
                      ELSE install_nodes(g, topo.order, 1)

\* the first loop of __import_r__: import the owners not yet done
RECURSIVE import_owners(_, _, _, _)
import_owners(g, rs, j, r_owner_done) ==
    IF ~Ok(g) \/ j > Len(rs) THEN g
    ELSE LET node == owner(rs[j])
         IN  IF node = NoOwner \/ node \in r_owner_done
             THEN import_owners(g, rs, j + 1, r_owner_done)
             ELSE import_owners(import(g, node), rs, j + 1, r_owner_done \cup {node})

\* the second loop of __import_r__: admit the variables themselves
RECURSIVE import_variables(_, _, _)
import_variables(g, rs, j) ==
    IF ~Ok(g) \/ j > Len(rs) THEN g
    ELSE LET r == rs[j]
         IN  IF missing_input(g, r) # "" THEN Raise(g, missing_input(g, r))
             ELSE LET g1 == IF g.r_fgraph[r] # "self" THEN setup_r(g, r) ELSE g
                  IN  import_variables(
                          IF Ok(g1) THEN [g1 EXCEPT !.variables = @ \cup {r}] ELSE g1,
                          rs, j + 1)

\* __import_r__(variables)
import_r(g, rs) ==
    import_variables(import_owners(g, rs, 1, g.nodes), rs, 1)

\* ------------------------------------------------------------------
\* change_input
\* ------------------------------------------------------------------
\* a type test that compares the old variable with itself
type_differs_never(r, new_r) == type(r) # type(r)

\* not r.type == new_r.type
type_differs(r, new_r) == type(r) # type(new_r)

\* the exception change_input raises before it writes the slot, or ""
change_input_refused(g, node, i, new_r) ==
    IF node = "output"
    THEN (IF g.disowned \/ type_differs(g.outputs[i + 1], new_r) THEN "TypeError" ELSE "")
    ELSE IF g.node_fgraph[node] = "none" THEN "AttributeError"
    ELSE IF g.node_fgraph[node] # "self" THEN "Exception"
    ELSE IF type_differs(g.node_inputs[node][i + 1], new_r) THEN "TypeError"
    ELSE ""

\* self.outputs[i] = new_r  /  node.inputs[i] = new_r
write_slot(g, node, i, new_r) ==
    IF node = "output"
    THEN [g EXCEPT !.outputs[i + 1] = new_r]
    ELSE [g EXCEPT !.node_inputs[node][i + 1] = new_r]

\* the tail of change_input dispatching on_change_input straight after the
\* import, before the client lists are brought up to date
rewire_notifies_first(g, node, i, r, new_r) ==
    LET g1 == import_r(g, <<new_r>>)
        g2 == IF Ok(g1)
              THEN execute_callbacks(g1, Event("on_change_input", node, i, r, new_r))
              ELSE g1
        g3 == add_clients(g2, new_r, <<node, i>>)
        rem == remove_clients(g3, r, <<node, i>>, FALSE)
    IN  IF rem.flag THEN prune_r(rem.g, r) ELSE rem.g

\* if prune: self.__prune_r__([r])
deferred_prune(g, flag, r) ==
    IF flag THEN prune_r(g, r) ELSE g

\* change_input up to the result of __remove_clients__: the graph and
\* whether r was left without clients
unhook(g, node, i, r, new_r) ==
    remove_clients(add_clients(import_r(g, <<new_r>>), new_r, <<node, i>>),
                   r, <<node, i>>, FALSE)

\* self.execute_callbacks('on_change_input', node, i, r, new_r)
notify(g, node, i, r, new_r) ==
    IF Ok(g) THEN execute_callbacks(g, Event("on_change_input", node, i, r, new_r))
    ELSE g

\* change_input after __remove_clients__ has returned rem: the dispatch,
\* then the prune of r if it was left without clients
rewire_from(rem, node, i, r, new_r) ==
    deferred_prune(notify(rem.g, node, i, r, new_r), rem.flag, r)

\* change_input from the import of new_r on (lines 426-435)
rewire(g, node, i, r, new_r) ==
    rewire_from(unhook(g, node, i, r, new_r), node, i, r, new_r)

\* change_input without the return on r is new_r
change_input_no_fast_path(g, node, i, new_r) ==
    IF ~Ok(g) THEN g
    ELSE LET e == change_input_refused(g, node, i, new_r)
             r == Slot(g, node, i)
         IN  IF e # "" THEN Raise(g, e)
             ELSE rewire(write_slot(g, node, i, new_r), node, i, r, new_r)

\* change_input(node, i, new_r)
change_input(g, node, i, new_r) ==
    IF ~Ok(g) THEN g
    ELSE LET e == change_input_refused(g, node, i, new_r)
             r == Slot(g, node, i)
         IN  IF e # "" THEN Raise(g, e)
             ELSE IF r = new_r THEN write_slot(g, node, i, new_r)
             ELSE rewire(write_slot(g, node, i, new_r), node, i, r, new_r)

\* on_change_input of a feature that, when it finds the old variable r
\* without clients, calls change_input(site[1], site[2], r)
feature_on_change_input(g, r, site) ==
    IF Ok(g) /\ g.clients[r] = <<>>
    THEN change_input(g, site[1], site[2], r)
    ELSE g

\* the dispatch of on_change_input with that feature attached
notify_observed(g, node, i, r, new_r, site) ==
    IF Ok(g)
    THEN feature_on_change_input(
             execute_callbacks(g, Event("on_change_input", node, i, r, new_r)), r, site)
    ELSE g

\* change_input from the import of new_r on, with that feature attached
rewire_observed(g, node, i, r, new_r, site) ==
    LET rem == unhook(g, node, i, r, new_r)
    IN  deferred_prune(notify_observed(rem.g, node, i, r, new_r, site), rem.flag, r)

\* whether change_input(node, i, new_r) gets as far as dispatching
\* on_change_input with the old variable left without clients
loses_last_client(g, node, i, new_r) ==
    /\ Ok(g) /\ change_input_refused(g, node, i, new_r) = ""
    /\ Slot(g, node, i) # new_r
    /\ LET h == unhook(write_slot(g, node, i, new_r), node, i, Slot(g, node, i), new_r).g
       IN  Ok(h) /\ h.clients[Slot(g, node, i)] = <<>>

\* change_input(node, i, new_r) with that feature attached
change_input_observed(g, node, i, new_r, site) ==
    IF ~Ok(g) THEN g
    ELSE LET e == change_input_refused(g, node, i, new_r)
             r == Slot(g, node, i)
         IN  IF e # "" THEN Raise(g, e)
             ELSE IF r = new_r THEN write_slot(g, node, i, new_r)
             ELSE rewire_observed(write_slot(g, node, i, new_r), node, i, r, new_r, site)

\* ------------------------------------------------------------------
\* replace
\* ------------------------------------------------------------------
\* replace without the test of r.fgraph
replace_refused_type_only(g, r, new_r) ==
    IF type_differs(r, new_r) THEN "TypeError" ELSE ""

\* the exception replace raises before it looks at the variable set, or ""
replace_refused(g, r, new_r) ==
    IF g.r_fgraph[r] = "none" THEN "AttributeError"
    ELSE IF g.r_fgraph[r] # "self" THEN "Exception"
    ELSE IF type_differs(r, new_r) THEN "TypeError"
    ELSE ""

\* the loop of replace over the copy of r.clients
RECURSIVE replace_sites(_, _, _, _, _)
replace_sites(g, snapshot, j, r, new_r) ==
    IF ~Ok(g) \/ j > Len(snapshot) THEN g
    ELSE LET node == snapshot[j][1]
             i == snapshot[j][2]
         IN  IF node = "output" /\ g.outputs[i + 1] # r THEN Raise(g, "AttributeError")
             ELSE IF node # "output" /\ g.node_inputs[node][i + 1] # r
                  THEN Raise(g, "AssertionError")
             ELSE replace_sites(change_input(g, node, i, new_r), snapshot, j + 1, r, new_r)

\* replace(r, new_r)
replace(g, r, new_r) ==
    LET e == replace_refused(g, r, new_r)
    IN  IF e # "" THEN Raise(g, e)
        ELSE IF r \notin g.variables THEN g
        ELSE replace_sites(g, g.clients[r], 1, r, new_r)

\* replace_all(pairs): for r, new_r in pairs: self.replace(r, new_r); h is
\* the graph the replace of one pair leaves, out the one the loop leaves
RECURSIVE replace_all(_, _, _)
replace_all(g, pairs, j) ==
    IF ~Ok(g) \/ j > Len(pairs) THEN g
    ELSE CHOOSE out \in {replace_all(h, pairs, j + 1) :
                            h \in {replace(g, pairs[j][1], pairs[j][2])}} : TRUE

\* ------------------------------------------------------------------
\* __init__
\* ------------------------------------------------------------------
\* the loop of __init__ over self.inputs
RECURSIVE init_inputs(_, _)
init_inputs(g, j) ==
    IF ~Ok(g) \/ j > Len(g.inputs) THEN g
    ELSE LET input == g.inputs[j]
         IN  IF owner(input) # NoOwner THEN Raise(g, "ValueError")
             ELSE LET g1 == setup_r(g, input)
                  IN  init_inputs(IF Ok(g1) THEN [g1 EXCEPT !.variables = @ \cup {input}]
                                            ELSE g1, j + 1)

\* for i, output in enumerate(outputs): output.clients.append(('output', i))
RECURSIVE init_output_clients(_, _)
init_output_clients(g, i) ==
    IF ~Ok(g) \/ i >= Len(g.outputs) THEN g
    ELSE init_output_clients(
             [g EXCEPT !.clients[g.outputs[i + 1]] = Append(@, <<"output", i>>)], i + 1)

\* __init__ from the loop over self.inputs on, g holding the fresh instance
\* and the library objects as they are found
init(g) == init_output_clients(import_r(init_inputs(g, 1), g.outputs), 0)

\* FunctionGraph(DeclaredInputs, outs) over a library no graph has touched
FunctionGraph(outs) ==
    init([node_inputs |-> InitNodeInputs,
          inputs      |-> DeclaredInputs,
          outputs     |-> outs,
          nodes       |-> {},
          variables   |-> {},
          clients     |-> [r \in Vars |-> <<>>],
          r_fgraph    |-> [r \in Vars |-> "none"],
          node_fgraph |-> [node \in Nodes |-> "none"],
          events      |-> <<>>,
          views       |-> <<>>,
          features    |-> <<"validator">>,
          heard       |-> [f \in Features |-> 0],
          disowned    |-> FALSE,
          err         |-> ""])

\* ------------------------------------------------------------------
\* disown
\* ------------------------------------------------------------------
\* disown(): del node.fgraph for the nodes of self.nodes, del variable.fgraph
\* and del variable.clients for the variables of self.variables, then the
\* sets are emptied and inputs and outputs set to None (the field disowned
\* says that they are None)
disown(g) ==
    [g EXCEPT !.node_fgraph = [node \in Nodes |-> IF node \in g.nodes THEN "none" ELSE @[node]],
              !.r_fgraph = [r \in Vars |-> IF r \in g.variables THEN "none" ELSE @[r]],
              !.clients = [r \in Vars |-> IF r \in g.variables THEN <<>> ELSE @[r]],
              !.nodes = {},
              !.variables = {},
              !.inputs = <<>>,
              !.outputs = <<>>,
              !.disowned = TRUE]

\* ------------------------------------------------------------------
\* features
\* ------------------------------------------------------------------
\* on_attach of the feature raises toolbox.AlreadyThere: a ReplaceValidate
\* finds the methods an attached ReplaceValidate installed on the graph
already_there(reg, feature) ==
    feature \in ReplaceValidates /\ Range(reg.features) \cap ReplaceValidates # {}

\* extend without the test 'feature in self._features'
extend_registers_again(reg, feature) ==
    IF ~has_on_attach(feature) THEN [reg EXCEPT !.features = Append(@, feature)]
    ELSE LET called == [reg EXCEPT !.attach_calls[feature] = @ + 1]
         IN  IF already_there(reg, feature) THEN called
             ELSE [called EXCEPT !.features = Append(@, feature)]

\* extend(feature); reg holds the feature list and the call counts
extend(reg, feature) ==
    IF Contains(reg.features, feature) THEN reg
    ELSE IF ~has_on_attach(feature) THEN [reg EXCEPT !.features = Append(@, feature)]
    ELSE LET called == [reg EXCEPT !.attach_calls[feature] = @ + 1]
         IN  IF already_there(reg, feature) THEN called
             ELSE [called EXCEPT !.features = Append(@, feature)]

\* remove_feature that calls on_detach whether or not the feature was found
remove_feature_always_detaches(reg, feature) ==
    LET removed == IF Contains(reg.features, feature)
                   THEN [reg EXCEPT !.features = RemoveFirst(@, feature)]
                   ELSE reg
    IN  IF has_on_detach(feature)
        THEN [removed EXCEPT !.detach_calls[feature] = @ + 1]
        ELSE removed

\* remove_feature(feature)
remove_feature(reg, feature) ==
    IF ~Contains(reg.features, feature) THEN reg
    ELSE LET removed == [reg EXCEPT !.features = RemoveFirst(@, feature)]
         IN  IF has_on_detach(feature)
             THEN [removed EXCEPT !.detach_calls[feature] = @ + 1]
             ELSE removed

\* collect_callbacks(name, *args) with the arguments execute_callbacks takes:
\* fn(*args) hands the callback no graph, so the call of the first listed
\* feature that defines the callback raises TypeError before the feature
\* has heard anything; with no such feature the empty dictionary is returned
RECURSIVE collect_callbacks(_, _, _)
collect_callbacks(reg, name, j) ==
    IF j > Len(reg.features) THEN reg
    ELSE IF has_callback(reg.features[j], name) THEN Raise(reg, "TypeError")
    ELSE collect_callbacks(reg, name, j + 1)

\* the body of the loop of check_integrity over the inputs of a node, from
\* input i on: "" when nothing is raised
RECURSIVE check_node_inputs(_, _, _)
check_node_inputs(g, node, i) ==
    IF i >= Len(g.node_inputs[node]) THEN ""
    ELSE LET variable == g.node_inputs[node][i + 1]
         IN  IF g.r_fgraph[variable] = "none" THEN "AttributeError"
             ELSE IF g.r_fgraph[variable] # "self" THEN "Exception"
             ELSE IF ~Contains(g.clients[variable], <<node, i>>) THEN "Exception"
             ELSE check_node_inputs(g, node, i + 1)

\* the body of the loop of check_integrity over nodes
check_node(g, node) ==
    IF g.node_fgraph[node] = "none" THEN "AttributeError"
    ELSE IF g.node_fgraph[node] # "self" THEN "Exception"
    ELSE check_node_inputs(g, node, 0)

\* the body of the loop of check_integrity over variables, ns being the
\* nodes recomputed
check_variable(g, ns, variable) ==
    IF /\ owner(variable) = NoOwner
       /\ ~Contains(g.inputs, variable)
       /\ ~isConstant(variable)
    THEN "Exception"
    ELSE IF g.r_fgraph[variable] = "none" THEN "AttributeError"
    ELSE IF g.r_fgraph[variable] # "self" THEN "Exception"
    ELSE IF \E j \in 1..Len(g.clients[variable]) :
               LET node == g.clients[variable][j][1]
                   i == g.clients[variable][j][2]
               IN  IF node = "output" THEN g.outputs[i + 1] # variable
                   ELSE node \notin ns \/ g.node_inputs[node][i + 1] # variable
         THEN "Exception"
    ELSE ""

\* what check_integrity does after the two sets ns and vs are recomputed;
\* the loops go over sets, in no order that the program fixes, so that the
\* exception raised is that of any one of the nodes, or variables, at fault
check_against(g, ns, vs) ==
    IF g.nodes # ns THEN {"Exception"}
    ELSE IF \E node \in ns : check_node(g, node) # ""
         THEN {check_node(g, node) : node \in {n \in ns : check_node(g, n) # ""}}
    ELSE IF g.variables # vs THEN {"Exception"}
    ELSE IF \E variable \in vs : check_variable(g, ns, variable) # ""
         THEN {check_variable(g, ns, variable) :
                  variable \in {v \in vs : check_variable(g, ns, v) # ""}}
    ELSE {""}

\* check_integrity(): the outcomes it can have, "" when it returns, else the
\* exception it raises; graph.ops(None, None) raises TypeError once disown
\* has set inputs and outputs to None
check_integrity(g) ==
    IF g.disowned THEN {"TypeError"}
    ELSE check_against(g, graph_ops(g, Range(g.inputs), Range(g.outputs)),
                       graph_variables(g, Range(g.inputs), Range(g.outputs)))

\* graph.clone_get_equiv(self.inputs, self.outputs) (theano/gof/graph.py):
\* copies of the inputs and of what io_toposort reaches from the outputs,
\* wired as the originals are and set up by no graph.  The copy of an object
\* goes by the name of the object.
graph_clone_get_equiv(g) ==
    LET copies == [node_inputs |-> g.node_inputs,
                   inputs      |-> g.inputs,
                   outputs     |-> g.outputs,
                   nodes       |-> {},
                   variables   |-> {},
                   clients     |-> [r \in Vars |-> <<>>],
                   r_fgraph    |-> [r \in Vars |-> "none"],
                   node_fgraph |-> [node \in Nodes |-> "none"],
                   events      |-> <<>>,
                   views       |-> <<>>,
                   features    |-> <<CloneValidator>>,
                   heard       |-> g.heard,
                   disowned    |-> FALSE,
                   err         |-> ""]
    IN  IF g.disowned THEN Raise(copies, "TypeError")
        ELSE Raise(copies, io_toposort(g, Range(g.inputs), g.outputs).err)

\* the loop of clone_get_equiv over self._features, from feature j of fs on:
\* e.extend(feature), ereg being the feature list of the new graph e and the
\* call counts of the features
RECURSIVE clone_features(_, _, _)
clone_features(ereg, fs, j) ==
    IF j > Len(fs) THEN ereg
    ELSE clone_features(extend(ereg, fs[j]), fs, j + 1)

\* clone_get_equiv from e.check_integrity() on, e being the new graph and e2
\* what its check_integrity does: reg is this graph's feature list, which
\* stays as it is, with the call counts of the features, and e the new graph
clone_checked(reg, e, e2) ==
    IF e2 # "" THEN [reg |-> Raise(reg, e2), e |-> e]
    ELSE LET ereg == clone_features([reg EXCEPT !.features = e.features],
                                    reg.features, 1)
         IN  [reg |-> [ereg EXCEPT !.features = reg.features],
              e |-> [e EXCEPT !.features = ereg.features]]

\* clone_get_equiv from the construction of the new graph on, e being what
\* FunctionGraph(...) over the copies leaves
clone_built(reg, e) ==
    IF ~Ok(e) THEN {[reg |-> Raise(reg, e.err), e |-> e]}
    ELSE {clone_checked(reg, e, e2) : e2 \in check_integrity(e)}

\* clone_get_equiv(): the outcomes it can have, each the feature list with
\* the exception raised and the new graph
clone_get_equiv(g, reg) ==
    LET copies == graph_clone_get_equiv(g)
    IN  IF ~Ok(copies) THEN {[reg |-> Raise(reg, copies.err), e |-> copies]}
        ELSE UNION {IF e1 # "" THEN {[reg |-> Raise(reg, e1), e |-> copies]}
                    ELSE clone_built(reg, init(copies)) :
                    e1 \in check_integrity(g)}

\* ------------------------------------------------------------------
\* State machine: one action per public call
\* ------------------------------------------------------------------
\* the graph as a value, with an empty callback log and no exception
Self ==
    [node_inputs |-> node_inputs,
     inputs |-> (IF disowned THEN <<>> ELSE DeclaredInputs), outputs |-> outputs,
     nodes |-> nodes, variables |-> variables, clients |-> clients,
     r_fgraph |-> r_fgraph, node_fgraph |-> node_fgraph, events |-> <<>>,
     views |-> <<>>, features |-> features, heard |-> heard,
     disowned |-> disowned, err |-> ""]

\* the state a call leaves behind
Becomes(g, c) ==
    /\ node_inputs' = g.node_inputs
    /\ outputs' = g.outputs
    /\ nodes' = g.nodes
    /\ variables' = g.variables
    /\ clients' = g.clients
    /\ r_fgraph' = g.r_fgraph
    /\ node_fgraph' = g.node_fgraph
    /\ events' = g.events
    /\ views' = g.views
    /\ heard' = g.heard
    /\ result' = IF Ok(g) THEN "ok" ELSE g.err
    /\ raised' = (raised \/ ~Ok(g))
    /\ call' = c
    /\ ncalls' = ncalls + 1

\* the second graph before it is constructed
NotBuilt == [built |-> FALSE, id |-> 0, inputs |-> <<>>, outputs |-> <<>>,
             nodes |-> {}, variables |-> {}]

\* the feature list the constructor leaves: its own ReplaceValidate, whose
\* on_attach has run once
InitRegistry ==
    /\ features = <<"validator">>
    /\ attach_calls = [f \in Features |-> IF f = "validator" THEN 1 ELSE 0]
    /\ detach_calls = [f \in Features |-> 0]
    /\ heard = [f \in Features |-> 0]

Init ==
    \E outs \in InitOutputs :
        LET g == FunctionGraph(outs)
        IN  /\ Ok(g)
            /\ node_inputs = g.node_inputs
            /\ outputs = g.outputs
            /\ nodes = g.nodes
            /\ variables = g.variables
            /\ clients = g.clients
            /\ r_fgraph = g.r_fgraph
            /\ node_fgraph = g.node_fgraph
            /\ events = g.events
            /\ views = g.views
            /\ result = "ok"
            /\ call = [op |-> "__init__", node |-> "-", i |-> -1, r |-> "-",
                       new_r |-> "-", changed |-> TRUE]
            /\ ncalls = 0
            /\ disowned = FALSE
            /\ raised = FALSE
            /\ other = NotBuilt
            /\ InitRegistry

Consumers == Nodes \cup {"output"}

NumSlots(node) == IF node = "output" THEN Len(outputs) ELSE Len(node_inputs[node])

Changed(g) ==
    <<g.node_inputs, g.outputs, g.nodes, g.variables, g.clients, g.r_fgraph,
      g.node_fgraph>> # graph

\* the indexes change_input is called with: those of the consumer's slots,
\* and 0 once self.outputs is None
SlotIndexes(node) ==
    IF node = "output" /\ disowned THEN {0} ELSE 0..(NumSlots(node) - 1)

\* the variable the slot holds before the call, "-" once self.outputs is None
OldVariable(node, i) ==
    IF node = "output" /\ disowned THEN "-" ELSE Slot(Self, node, i)

ChangeInput ==
    /\ ncalls < MaxCalls
    /\ \E node \in Consumers, new_r \in Vars :
         \E i \in SlotIndexes(node) :
            LET g == change_input(Self, node, i, new_r)
            IN  Becomes(g, [op |-> "change_input", node |-> node, i |-> i,
                            r |-> OldVariable(node, i), new_r |-> new_r,
                            changed |-> Changed(g)])
    /\ UNCHANGED <<disowned, other, features, attach_calls, detach_calls>>

Replace ==
    /\ ncalls < MaxCalls
    /\ \E r \in Vars, new_r \in Vars :
            LET g == replace(Self, r, new_r)
            IN  Becomes(g, [op |-> "replace", node |-> "-", i |-> -1,
                            r |-> r, new_r |-> new_r, changed |-> Changed(g)])
    /\ UNCHANGED <<disowned, other, features, attach_calls, detach_calls>>

\* the pairs arguments replace_all is called with: a pair that has nothing
\* to do before one that imports, two that rewire, a pair whose replace
\* raises before another, and no pair
ReplaceAllPairs ==
    {<<<<"x", "x">>, <<"m", "f">>>>,
     <<<<"b", "a">>, <<"m", "k">>>>,
     <<<<"m", "q">>, <<"b", "a">>>>,
     <<>>}

ReplaceAll ==
    /\ ncalls < MaxCalls
    /\ \E pairs \in ReplaceAllPairs :
            LET g == replace_all(Self, pairs, 1)
            IN  Becomes(g, [op |-> "replace_all", node |-> "-", i |-> -1,
                            r |-> "-", new_r |-> "-", changed |-> Changed(g),
                            pairs |-> pairs])
    /\ UNCHANGED <<disowned, other, features, attach_calls, detach_calls>>

Next == ChangeInput \/ Replace \/ ReplaceAll

Spec == Init /\ [][Next]_vars

\* ------------------------------------------------------------------
\* Two graphs over the same library objects.  fgraph and clients are
\* attributes of the variables and nodes, so both graphs read and write the
\* same ones; "self" in r_fgraph and node_fgraph is the first graph.  Every
\* call of the constructor makes a new instance: one whose constructor raised
\* is abandoned, and what it had set up keeps referring to it.
\* ------------------------------------------------------------------
\* the k-th FunctionGraph constructed after the first
Instance(k) == "other" \o ToString(k)

\* the arguments the second graph is constructed with
OtherGraphs ==
    {[inputs |-> <<"u">>, outputs |-> <<"q">>],
     [inputs |-> <<"u">>, outputs |-> <<"q", "k">>],
     [inputs |-> <<"x", "y">>, outputs |-> <<"a", "m">>]}

\* fgraph references as the methods of the instance me see them in 'is
\* self': a reference to me reads "self", one to the first graph reads me,
\* and a reference to any other instance is left as it is
Swap(fgraph, me) ==
    [o \in DOMAIN fgraph |->
        IF fgraph[o] = "self" THEN me
        ELSE IF fgraph[o] = me THEN "self" ELSE fgraph[o]]

\* the instance me of the second graph as a value; its feature list holds a
\* ReplaceValidate of its own, which is none of Features
OtherSelf(me) ==
    [node_inputs |-> node_inputs, inputs |-> other.inputs, outputs |-> other.outputs,
     nodes |-> other.nodes, variables |-> other.variables, clients |-> clients,
     r_fgraph |-> Swap(r_fgraph, me), node_fgraph |-> Swap(node_fgraph, me),
     events |-> <<>>, views |-> <<>>, features |-> <<>>, heard |-> heard,
     disowned |-> FALSE, err |-> ""]

\* the state a call on the instance number id of the second graph leaves
\* behind
BecomesOther(g, c, built, id) ==
    /\ node_inputs' = g.node_inputs
    /\ clients' = g.clients
    /\ r_fgraph' = Swap(g.r_fgraph, Instance(id))
    /\ node_fgraph' = Swap(g.node_fgraph, Instance(id))
    /\ events' = g.events
    /\ views' = g.views
    /\ result' = IF Ok(g) THEN "ok" ELSE g.err
    /\ raised' = (raised \/ ~Ok(g))
    /\ call' = c
    /\ ncalls' = ncalls + 1
    /\ other' = [built |-> built, id |-> id, inputs |-> g.inputs,
                 outputs |-> g.outputs, nodes |-> g.nodes, variables |-> g.variables]
    /\ UNCHANGED <<outputs, nodes, variables, disowned, registry>>

Disown ==
    /\ ncalls < MaxCalls
    /\ Becomes(disown(Self), [op |-> "disown", node |-> "-", i |-> -1, r |-> "-",
                              new_r |-> "-", changed |-> TRUE])
    /\ disowned' = TRUE
    /\ UNCHANGED <<other, features, attach_calls, detach_calls>>

\* FunctionGraph(inputs, outputs) for the second graph, a new instance at
\* every call; when the constructor raises, other keeps what the abandoned
\* instance held
ConstructOther ==
    /\ ncalls < MaxCalls
    /\ ~other.built
    /\ \E o \in OtherGraphs :
          LET g == init([OtherSelf(Instance(other.id + 1))
                            EXCEPT !.inputs = o.inputs, !.outputs = o.outputs,
                                   !.nodes = {}, !.variables = {}])
          IN  BecomesOther(g, [op |-> "other.__init__", node |-> "-", i |-> -1,
                               r |-> "-", new_r |-> "-", changed |-> TRUE],
                           Ok(g), other.id + 1)

ChangeInputOther ==
    /\ ncalls < MaxCalls
    /\ other.built
    /\ \E node \in Consumers, new_r \in Vars :
         \E i \in 0..((IF node = "output" THEN Len(other.outputs)
                                          ELSE Len(node_inputs[node])) - 1) :
            LET me == OtherSelf(Instance(other.id))
                g == change_input(me, node, i, new_r)
            IN  BecomesOther(g, [op |-> "other.change_input", node |-> node, i |-> i,
                                 r |-> Slot(me, node, i), new_r |-> new_r,
                                 changed |-> View(g) # View(me)],
                             TRUE, other.id)

NextTwo == ChangeInput \/ Disown \/ ConstructOther \/ ChangeInputOther

SpecTwo == Init /\ [][NextTwo]_vars

\* ------------------------------------------------------------------
\* Construction as a step: from a library no graph has touched, the
\* constructor is called with every outputs list up to MaxOutputs long.
\* ------------------------------------------------------------------
CtorOutputs == UNION {[1..n -> Vars] : n \in 1..MaxOutputs}

InitBlank ==
    /\ node_inputs = InitNodeInputs
    /\ outputs = <<>>
    /\ nodes = {}
    /\ variables = {}
    /\ clients = [r \in Vars |-> <<>>]
    /\ r_fgraph = [r \in Vars |-> "none"]
    /\ node_fgraph = [node \in Nodes |-> "none"]
    /\ events = <<>>
    /\ views = <<>>
    /\ result = "ok"
    /\ call = [op |-> "-", node |-> "-", i |-> -1, r |-> "-", new_r |-> "-",
               changed |-> FALSE]
    /\ ncalls = 0
    /\ disowned = FALSE
    /\ raised = FALSE
    /\ other = NotBuilt
    /\ features = <<>>
    /\ attach_calls = [f \in Features |-> 0]
    /\ detach_calls = [f \in Features |-> 0]
    /\ heard = [f \in Features |-> 0]

\* FunctionGraph(DeclaredInputs, outs); self.extend(toolbox.ReplaceValidate())
\* runs before the inputs and outputs are looked at
Construct ==
    /\ call.op = "-"
    /\ \E outs \in CtorOutputs :
          Becomes(FunctionGraph(outs), [op |-> "__init__", node |-> "-", i |-> -1,
                                        r |-> "-", new_r |-> "-", changed |-> TRUE])
    /\ features' = <<"validator">>
    /\ attach_calls' = [attach_calls EXCEPT !["validator"] = 1]
    /\ UNCHANGED <<disowned, other, detach_calls>>

NextCtor == Construct

SpecCtor == InitBlank /\ [][NextCtor]_vars

\* ------------------------------------------------------------------
\* The feature list of a constructed graph: extend, remove_feature,
\* execute_callbacks, collect_callbacks and clone, called from outside.
\* ------------------------------------------------------------------
Registry ==
    [features |-> features, attach_calls |-> attach_calls,
     detach_calls |-> detach_calls, heard |-> heard, err |-> ""]

\* the state a call on the feature list leaves behind, ev and vw being what
\* it dispatched through execute_callbacks
BecomesRegistry(reg, c, ev, vw) ==
    /\ features' = reg.features
    /\ attach_calls' = reg.attach_calls
    /\ detach_calls' = reg.detach_calls
    /\ heard' = reg.heard
    /\ events' = ev
    /\ views' = vw
    /\ result' = IF Ok(reg) THEN "ok" ELSE reg.err
    /\ raised' = (raised \/ ~Ok(reg))
    /\ call' = c
    /\ ncalls' = ncalls + 1
    /\ UNCHANGED <<graph, disowned, other>>

Extend ==
    /\ ncalls < MaxFeatureCalls
    /\ \E feature \in Features :
          BecomesRegistry(extend(Registry, feature),
                          [op |-> "extend", feature |-> feature, changed |-> TRUE],
                          <<>>, <<>>)

RemoveFeature ==
    /\ ncalls < MaxFeatureCalls
    /\ \E feature \in Features :
          BecomesRegistry(remove_feature(Registry, feature),
                          [op |-> "remove_feature", feature |-> feature,
                           changed |-> TRUE],
                          <<>>, <<>>)

\* the arguments execute_callbacks and collect_callbacks are called with
\* from outside
DispatchedEvents ==
    {Event("on_import", "N", -1, "-", "-"),
     Event("on_prune", "N", -1, "-", "-"),
     Event("on_change_input", "N", 0, "x", "x")}

ExecuteCallbacks ==
    /\ ncalls < MaxFeatureCalls
    /\ \E ev \in DispatchedEvents :
          LET g == execute_callbacks(Self, ev)
          IN  BecomesRegistry([Registry EXCEPT !.heard = g.heard, !.err = g.err],
                              [op |-> "execute_callbacks", feature |-> ev.name,
                               changed |-> TRUE],
                              g.events, g.views)

CollectCallbacks ==
    /\ ncalls < MaxFeatureCalls
    /\ \E ev \in DispatchedEvents :
          BecomesRegistry(collect_callbacks(Registry, ev.name, 1),
                          [op |-> "collect_callbacks", feature |-> ev.name,
                           changed |-> TRUE],
                          <<>>, <<>>)

\* what is left of the new graph in the record of the call
Cloned(e) ==
    [outputs |-> e.outputs, nodes |-> e.nodes, variables |-> e.variables,
     clients |-> e.clients, features |-> e.features]

\* clone(): the copies, check_integrity(), a new graph over the copies, its
\* check_integrity(), then the loop over this graph's features
Clone ==
    /\ ncalls < MaxFeatureCalls
    /\ \E out \in clone_get_equiv(Self, Registry) :
          BecomesRegistry(out.reg,
                          [op |-> "clone", feature |-> "-", changed |-> TRUE,
                           e |-> Cloned(out.e)],
                          <<>>, <<>>)

NextFeatures == Extend \/ RemoveFeature \/ ExecuteCallbacks \/ CollectCallbacks \/ Clone

SpecFeatures == Init /\ [][NextFeatures]_vars

\* ------------------------------------------------------------------
\* change_input with a feature that re-references the old variable from
\* inside on_change_input.  The feature acts when the old variable has just
\* lost its last client, picking any input slot of a member node or any
\* output slot for its own change_input; the calls in which it has nothing
\* to do are those of Spec.
\* ------------------------------------------------------------------
\* every input slot of a node of the node set and every output slot
SlotsOf(g) ==
    UNION {{<<node, i>> : i \in 0..(Len(g.node_inputs[node]) - 1)} : node \in g.nodes}
        \cup {<<"output", i>> : i \in 0..(Len(g.outputs) - 1)}

\* the variables the observed calls put into a slot: two the graphs start
\* with and one that has to be imported
ObservedNewVars == {"a", "m", "k"}

ChangeInputObserved ==
    /\ ncalls < MaxObservedCalls
    /\ \E node \in Consumers, new_r \in ObservedNewVars :
         \E i \in 0..(NumSlots(node) - 1) :
            /\ loses_last_client(Self, node, i, new_r)
            /\ \E site \in SlotsOf(Self) :
                  LET g == change_input_observed(Self, node, i, new_r, site)
                  IN  Becomes(g, [op |-> "change_input", node |-> node, i |-> i,
                                  r |-> Slot(Self, node, i), new_r |-> new_r,
                                  changed |-> Changed(g), nested |-> site])
    /\ UNCHANGED <<disowned, other, features, attach_calls, detach_calls>>

NextObserved == ChangeInputObserved

SpecObserved == Init /\ [][NextObserved]_vars

\* ------------------------------------------------------------------
\* longer runs of change_input, over the two variables that bring a pruned
\* node back: a, which every graph starts with or imports with N, and f,
\* whose import installs M and F
\* ------------------------------------------------------------------
LongNewVars == {"a", "f"}

ChangeInputLong ==
    /\ ncalls < MaxLongCalls
    /\ \E node \in Consumers, new_r \in LongNewVars :
         \E i \in SlotIndexes(node) :
            LET g == change_input(Self, node, i, new_r)
            IN  Becomes(g, [op |-> "change_input", node |-> node, i |-> i,
                            r |-> OldVariable(node, i), new_r |-> new_r,
                            changed |-> Changed(g)])
    /\ UNCHANGED <<disowned, other, features, attach_calls, detach_calls>>

NextLong == ChangeInputLong

SpecLong == Init /\ [][NextLong]_vars

\* ------------------------------------------------------------------
\* Properties
\* ------------------------------------------------------------------
\* the variable a consumer slot of the current graph holds
Held(node, i) == IF node = "output" THEN outputs[i + 1] ELSE node_inputs[node][i + 1]

\* every input slot of a node of the node set and every slot of the output vector
Sites ==
    UNION {{<<node, i>> : i \in 0..(Len(node_inputs[node]) - 1)} : node \in nodes}
        \cup {<<"output", i>> : i \in 0..(Len(outputs) - 1)}

Count(s, e) == Cardinality({j \in 1..Len(s) : s[j] = e})

\* a variable nothing produces, that is no constant and no declared input
IsMissingInput(v) ==
    owner(v) = NoOwner /\ ~isConstant(v) /\ v \notin Range(DeclaredInputs)

EventNames == [j \in 1..Len(events) |-> events[j].name]

\* C1 (as claimed): after construction and after every call that returns
\* successfully, every client entry
\* of a member variable names a slot that holds it (an output slot, or an
\* input slot of a member node), and every slot of a member node or of the
\* output vector is recorded exactly once, on the list of the variable it
\* holds and on no other list.
C1_ClientsAgree ==
    result = "ok" =>
        /\ \A v \in variables : \A j \in 1..Len(clients[v]) :
              LET n == clients[v][j][1]
                  i == clients[v][j][2]
              IN  \/ n = "output" /\ i < Len(outputs) /\ outputs[i + 1] = v
                  \/ n \in nodes /\ i < Len(node_inputs[n]) /\ node_inputs[n][i + 1] = v
        /\ \A s \in Sites : \A v \in Vars :
              Count(clients[v], s) = (IF v = Held(s[1], s[2]) THEN 1 ELSE 0)

\* C2 (as claimed): after successful calls the cached variable set equals the
\* set recomputed from the outputs, as check_integrity compares them.
C2_VariablesAsRecomputed ==
    result = "ok" =>
        variables = graph_variables(Self, Range(DeclaredInputs), Range(outputs))

\* C3 (as claimed): after construction and after every successful call a node is in the
\* node set iff one of its outputs is held by an input slot of a member node
\* or by the output vector.
C3_NodesAreTheReferenced ==
    result = "ok" =>
        \A n \in Nodes :
            n \in nodes <=>
                \E s \in Sites : Held(s[1], s[2]) \in Range(node_outputs(n))

\* C4 (as claimed): after a successful replace(r, new_r), r in the variable
\* set and new_r not r, r has no client left, and every site r had is on
\* new_r's list and holds new_r.
C4_ReplaceLeavesNoClient ==
    [][(call'.op = "replace" /\ result' = "ok" /\ call'.r \in variables
          /\ call'.r # call'.new_r)
       => /\ clients'[call'.r] = <<>>
          /\ \A s \in Range(clients[call'.r]) :
                /\ Contains(clients'[call'.new_r], s)
                /\ Held(s[1], s[2])' = call'.new_r]_vars

\* C5: in every state reached by construction and calls that all returned
\* normally no missing input is in the variable set, and a change_input made
\* in such a state that gets as far as importing a variable that is a
\* missing input, or whose owner consumes one, raises MissingInputError.
C5_NoMissingInput ==
    /\ [](~raised => \A v \in variables : ~IsMissingInput(v))
    /\ [][(/\ ~raised
           /\ call'.op = "change_input" /\ call'.changed
           /\ \/ IsMissingInput(call'.new_r)
              \/ /\ owner(call'.new_r) # NoOwner
                 /\ owner(call'.new_r) \notin nodes'
                 /\ \E v \in Range(node_inputs'[owner(call'.new_r)]) :
                       IsMissingInput(v))
          => result' = "MissingInputError"]_vars

\* C5 witness: a change_input refused because the new variable's owner
\* consumes an undeclared variable
C5_Witness ==
    /\ call.op = "change_input" /\ call.new_r = "q" /\ result = "MissingInputError"
    /\ ncalls = 1

\* C6 (as claimed): a declared input stays in the variable set after every
\* successful call.
C6_DeclaredInputsStay ==
    result = "ok" => Range(DeclaredInputs) \subseteq variables

\* C7: a change_input or replace whose new variable has another type than
\* the old one raises before anything changes and dispatches nothing; the
\* error is the TypeError when the consumer (the replaced variable) belongs
\* to this graph.
C7_TypeErrorChangesNothing ==
    [][/\ (call'.op = "change_input" /\ type(call'.r) # type(call'.new_r))
          => /\ UNCHANGED graph /\ events' = <<>> /\ result' # "ok"
             /\ (call'.node = "output" \/ node_fgraph[call'.node] = "self")
                   => result' = "TypeError"
       /\ (call'.op = "replace" /\ type(call'.r) # type(call'.new_r))
          => /\ UNCHANGED graph /\ events' = <<>> /\ result' # "ok"
             /\ r_fgraph[call'.r] = "self" => result' = "TypeError"]_vars

\* C7 witness: a TypeError was raised by a change_input on a member node
C7_Witness ==
    /\ call.op = "change_input" /\ result = "TypeError"
    /\ call.node \in nodes /\ call.new_r = "t"

\* C8 (as claimed): replace(r, new_r) with r not in the variable set returns
\* silently and changes nothing.
C8_ReplaceAbsentIsSilent ==
    [][(call'.op = "replace" /\ call'.r \notin variables)
       => result' = "ok" /\ UNCHANGED graph /\ events' = <<>>]_vars

\* C8 (amended): replace(r, new_r) with r not in the variable set changes
\* nothing and dispatches nothing; it returns silently when r still refers to
\* this graph (it was pruned) and new_r has its type, raises TypeError when r
\* refers to this graph and the types differ, and raises when r was never
\* imported.
C8_ReplaceAbsent ==
    [][(call'.op = "replace" /\ call'.r \notin variables)
       => /\ UNCHANGED graph /\ events' = <<>>
          /\ result' = (IF r_fgraph[call'.r] # "self" THEN "AttributeError"
                        ELSE IF type(call'.r) # type(call'.new_r) THEN "TypeError"
                        ELSE "ok")]_vars

\* C8 witness: a replace of a pruned variable returned silently
C8_Witness ==
    /\ call.op = "replace" /\ result = "ok" /\ call.r \notin variables
    /\ r_fgraph[call.r] = "self" /\ call.r # call.new_r

\* C9: replace(r, r), and change_input of a slot to the variable it holds,
\* leave the slots, the node set, the variable set and every client list as
\* they were, order included, and dispatch no event: no feature hears of
\* the call.
C9_SameVariableIsNoOp ==
    [][/\ (call'.op = "replace" /\ call'.r = call'.new_r)
          => UNCHANGED graph /\ events' = <<>> /\ heard' = heard
       /\ (call'.op = "change_input" /\ call'.r = call'.new_r)
          => UNCHANGED graph /\ events' = <<>> /\ heard' = heard]_vars

\* C9 witness: replace(r, r) on a variable with two client sites
C9_Witness ==
    /\ call.op = "replace" /\ call.r = call.new_r /\ result = "ok"
    /\ call.r \in variables /\ Len(clients[call.r]) = 2

\* C10: in a successful change_input the events are the on_import events,
\* one per newly imported node, then the single on_change_input, then the
\* on_prune events, one per pruned node.
C10_EventOrder ==
    [][(call'.op = "change_input" /\ result' = "ok" /\ call'.r # call'.new_r)
       => LET ev == events'
              ni == Cardinality({j \in 1..Len(ev) : ev[j].name = "on_import"})
              imported == {ev[j].node : j \in 1..ni}
              pruned == {ev[j].node : j \in (ni + 2)..Len(ev)}
          IN  /\ Len(ev) >= ni + 1
              /\ \A j \in 1..ni : ev[j].name = "on_import"
              /\ ev[ni + 1] = Event("on_change_input", call'.node, call'.i,
                                    call'.r, call'.new_r)
              /\ \A j \in (ni + 2)..Len(ev) : ev[j].name = "on_prune"
              /\ Cardinality(imported) = ni
              /\ imported \cap nodes = {}
              /\ Cardinality(pruned) = Len(ev) - ni - 1
              /\ nodes' = (nodes \cup imported) \ pruned]_vars

\* C10 witness: one change_input dispatched all three kinds of event
C10_Witness ==
    /\ call.op = "change_input" /\ result = "ok"
    /\ Contains(EventNames, "on_import") /\ Contains(EventNames, "on_prune")
    /\ Contains(EventNames, "on_change_input")

\* the multiset of entries of two client lists is the same
SameEntries(s1, s2) == \A e \in Range(s1) \cup Range(s2) : Count(s1, e) = Count(s2, e)

\* C11: at the moment on_change_input(consumer, i, old_r, new_r) is dispatched
\* the slot holds new_r, new_r is in the variable set with (consumer, i) on
\* its client list, (consumer, i) is no longer on old_r's list, and old_r
\* and its owner are in the membership sets; in a change_input nothing has
\* left the membership sets yet: every node and variable that was a member
\* before the call still is, and what the call prunes it prunes after the
\* dispatch.
C11_NotifiedBeforePrune ==
    [][call'.op \in {"change_input", "replace"}
       => \A j \in 1..Len(events') :
             events'[j].name = "on_change_input"
             => LET e == events'[j]
                    s == views'[j]
                IN  /\ (IF e.node = "output" THEN s.outputs[e.i + 1]
                                             ELSE s.node_inputs[e.node][e.i + 1]) = e.new_r
                    /\ e.new_r \in s.variables
                    /\ Contains(s.clients[e.new_r], <<e.node, e.i>>)
                    /\ ~Contains(s.clients[e.r], <<e.node, e.i>>)
                    /\ e.r \in s.variables
                    /\ owner(e.r) # NoOwner => owner(e.r) \in s.nodes
                    /\ call'.op = "change_input"
                       => /\ nodes \subseteq s.nodes
                          /\ variables \subseteq s.variables
                          /\ nodes' \subseteq s.nodes
                          /\ variables' \subseteq s.variables]_vars

\* C11 witness: a successful change_input whose old variable lost its last
\* client and whose owner was pruned, after the dispatch
C11_Witness ==
    /\ call.op = "change_input" /\ result = "ok"
    /\ Len(events) >= 2 /\ events[1].name = "on_change_input"
    /\ events[2] = Event("on_prune", owner(call.r), -1, "-", "-")
    /\ owner(call.r) \in views[1].nodes /\ owner(call.r) \notin nodes

\* C12 (as claimed): at the moment on_prune(node) is dispatched the node is
\* not in the node set, none of its outputs is in the variable set, and no
\* client list contains a site (node, i).
C12_PrunedIsDisconnected ==
    \A j \in 1..Len(events) :
        events[j].name = "on_prune"
        => LET n == events[j].node
               s == views[j]
           IN  /\ n \notin s.nodes
               /\ Range(node_outputs(n)) \cap s.variables = {}
               /\ \A v \in Vars : \A h \in 1..Len(s.clients[v]) : s.clients[v][h][1] # n

\* C13 (as claimed): from a graph a successful call left, change_input(c, i, y)
\* with y used nowhere in the graph, followed by change_input(c, i, r) with r
\* the variable the slot held, gives every variable the client list it had
\* as a multiset and the node set it had, and y is out of the variable set.
C13_RoundTrip ==
    (result = "ok" /\ ~disowned)
    => \A c \in Sites : \A y \in Vars :
          LET r == Held(c[1], c[2])
              g1 == change_input(Self, c[1], c[2], y)
              g2 == change_input([g1 EXCEPT !.events = <<>>, !.views = <<>>],
                                 c[1], c[2], r)
          IN  (y # r /\ clients[y] = <<>> /\ Ok(g1))
              => /\ Ok(g2)
                 /\ \A w \in Vars : SameEntries(g2.clients[w], clients[w])
                 /\ g2.nodes = nodes
                 /\ y \notin g2.variables

\* C19 (as claimed): a change_input that imports installs only nodes that are
\* not in the node set: the assertion of the install loop holds and no
\* on_import is dispatched for a node that was a member.
C19_ImportInstallsOnlyNew ==
    [][(call'.op = "change_input" /\ call'.changed)
       => /\ result' # "AssertionError"
          /\ \A j \in 1..Len(events') :
                events'[j].name = "on_import" => events'[j].node \notin nodes]_vars

\* C20: when on_prune(node) is dispatched none of the node's outputs has a
\* client or is an output of the graph; and after construction and every
\* successful call the prune of a member node with an output that has a
\* client or is an output of the graph changes nothing and dispatches
\* nothing.
C20_PruneSparesReferenced ==
    /\ \A j \in 1..Len(events) :
          events[j].name = "on_prune"
          => \A out \in Range(node_outputs(events[j].node)) :
                views[j].clients[out] = <<>> /\ out \notin Range(views[j].outputs)
    /\ (result = "ok" /\ ~disowned)
       => \A n \in nodes :
             (\E out \in Range(node_outputs(n)) :
                 clients[out] # <<>> \/ out \in Range(outputs))
             => prune(Self, n) = Self

\* C20 witness: a successful change_input took the last client of one output
\* of a node whose other output is in use; the node stayed and no on_prune
\* was dispatched
C20_Witness ==
    /\ call.op = "change_input" /\ result = "ok"
    /\ clients[call.r] = <<>> /\ owner(call.r) \in nodes
    /\ ~Contains(EventNames, "on_prune")

\* the variables and nodes an import of the variables of start looks at, in a
\* graph whose variable set is vs: it climbs from a variable that is not in
\* vs to its owner and from a node to its inputs
RECURSIVE Reached(_, _, _)
Reached(ni, vs, seen) ==
    LET more == UNION {IF o \in Vars
                       THEN (IF o \notin vs /\ owner(o) # NoOwner THEN {owner(o)} ELSE {})
                       ELSE Range(ni[o]) : o \in seen}
    IN  IF more \subseteq seen THEN seen ELSE Reached(ni, vs, seen \cup more)

\* the graph an object's fgraph attribute refers to
Owning(o) == IF o \in Vars THEN r_fgraph[o] ELSE node_fgraph[o]

\* C14: with two graphs no node and no variable is in the membership sets of
\* both; a change_input of either graph that gets as far as importing raises
\* and adds nothing to the membership sets, and a construction of the second
\* graph raises, when a node or variable they have to import refers to
\* another graph than the one called, an abandoned instance included.
C14_OwnershipExclusive ==
    [][/\ nodes' \cap other'.nodes = {}
       /\ variables' \cap other'.variables = {}
       /\ (/\ call'.op = "change_input" /\ call'.changed
           /\ \E o \in Reached(node_inputs', variables, {call'.new_r}) :
                 Owning(o) \notin {"none", "self"})
          => result' # "ok" /\ nodes' = nodes /\ variables' = variables
       /\ (/\ call'.op = "other.change_input" /\ call'.changed
           /\ \E o \in Reached(node_inputs', other.variables, {call'.new_r}) :
                 Owning(o) \notin {"none", Instance(other.id)})
          => result' # "ok" /\ other'.nodes = other.nodes
                /\ other'.variables = other.variables
       /\ (/\ call'.op = "other.__init__"
           /\ \E o \in Reached(node_inputs, {},
                               Range(other'.inputs) \cup Range(other'.outputs)) :
                 Owning(o) # "none")
          => result' # "ok" /\ ~other'.built]_vars

\* C14 witness: the first graph was refused a variable whose owner belongs
\* to the second graph
C14_Witness ==
    /\ call.op = "change_input" /\ result = "Exception" /\ other.built
    /\ owner(call.new_r) \in other.nodes
    /\ node_fgraph[owner(call.new_r)] = Instance(other.id)

\* C15 (as claimed): after disown() both membership sets are empty and no
\* variable and no node refers to this graph any more, those pruned before
\* the disown included.
C15_DisownReleasesAll ==
    (call.op = "disown" /\ result = "ok")
    => /\ nodes = {} /\ variables = {}
       /\ \A r \in Vars : r_fgraph[r] # "self"
       /\ \A node \in Nodes : node_fgraph[node] # "self"

\* C16 (as claimed): a construction that raises over an operator with a bad
\* view_map or destroy_map (the only Exception a construction over an
\* untouched library raises) has inserted no node into the node set and has
\* dispatched no on_import.
C16_BadMapBeforeMembership ==
    (call.op = "__init__" /\ result = "Exception")
    => nodes = {} /\ ~Contains(EventNames, "on_import")

\* no call lets a feature that is not on the list hear a callback
UnlistedHearNothing == \A f \in Features \ Range(features) : heard'[f] = heard[f]

\* C17: extend(feature) appends the feature iff it is not on the list and its
\* on_attach, if it has one, does not raise AlreadyThere; on_attach runs once
\* in an extend of an unlisted feature that has one and not at all in an
\* extend of a listed feature; the call returns normally either way; the
\* list never holds a feature twice, and a feature that is not on the list,
\* a rejected one included, hears no callback.
C17_ExtendDeduplicates ==
    [][/\ call'.op = "extend"
          => LET f == call'.feature
                 listed == f \in Range(features)
                 rejected == /\ has_on_attach(f) /\ f \in ReplaceValidates
                             /\ Range(features) \cap ReplaceValidates # {}
             IN  /\ result' = "ok"
                 /\ features' = (IF ~listed /\ ~rejected THEN Append(features, f)
                                                         ELSE features)
                 /\ attach_calls' = (IF ~listed /\ has_on_attach(f)
                                     THEN [attach_calls EXCEPT ![f] = @ + 1]
                                     ELSE attach_calls)
                 /\ UNCHANGED <<detach_calls, heard>>
       /\ \A f \in Features : Count(features', f) <= 1
       /\ UnlistedHearNothing]_vars

\* C17 witness: a rejected feature stayed off the list, its on_attach having
\* run, and a callback went out to the listed features without it
C17_Witness ==
    /\ call.op = "execute_callbacks" /\ call.feature = "on_change_input"
    /\ attach_calls["validator2"] = 1 /\ "validator2" \notin Range(features)
    /\ heard["validator"] = 1 /\ heard["validator2"] = 0

\* C18: remove_feature(feature) of a listed feature takes it off the list
\* and runs its on_detach, when it defines one, once; from then on the
\* feature hears no callback; remove_feature of a feature that is not on the
\* list returns normally, runs no on_detach and leaves the list as it was.
C18_RemoveFeature ==
    [][/\ call'.op = "remove_feature"
          => LET f == call'.feature
             IN  /\ result' = "ok"
                 /\ UNCHANGED <<attach_calls, heard>>
                 /\ IF f \in Range(features)
                    THEN /\ f \notin Range(features')
                         /\ Range(features') = Range(features) \ {f}
                         /\ Len(features') = Len(features) - 1
                         /\ detach_calls' = (IF has_on_detach(f)
                                             THEN [detach_calls EXCEPT ![f] = @ + 1]
                                             ELSE detach_calls)
                    ELSE UNCHANGED <<features, detach_calls>>
       /\ \A f \in Features \ Range(features) : heard'[f] = heard[f]]_vars

\* C18 witness: the feature the constructor attached heard a callback and
\* was then removed, its on_detach run once
C18_Witness ==
    /\ call.op = "remove_feature" /\ call.feature = "validator"
    /\ "validator" \notin Range(features)
    /\ heard["validator"] = 1 /\ detach_calls["validator"] = 1 /\ ncalls = 2

\* the slots and the client lists of a graph agree: every client entry of a
\* member variable names a slot that holds it, and every slot of a member
\* node or of the output vector is on the list of the variable it holds,
\* once, and on no other list
ClientListsMatch(ni, outs, ns, vs, cl) ==
    /\ \A w \in vs : \A j \in 1..Len(cl[w]) :
          LET n == cl[w][j][1]
              i == cl[w][j][2]
          IN  \/ n = "output" /\ i < Len(outs) /\ outs[i + 1] = w
              \/ n \in ns /\ i < Len(ni[n]) /\ ni[n][i + 1] = w
    /\ \A n \in ns \cup {"output"} :
          \A i \in 0..((IF n = "output" THEN Len(outs) ELSE Len(ni[n])) - 1) :
             \A w \in Vars :
                Count(cl[w], <<n, i>>) =
                    (IF w = (IF n = "output" THEN outs[i + 1] ELSE ni[n][i + 1])
                     THEN 1 ELSE 0)

\* the feature found old_r without clients when on_change_input of the call
\* just made was dispatched, and gave it a new site with a change_input of
\* its own, whose on_change_input is the next event
Rereferenced ==
    /\ call'.op = "change_input" /\ result' = "ok"
    /\ call'.r # call'.new_r /\ call'.nested # <<>>
    /\ \E k \in 1..(Len(events') - 1) :
          /\ events'[k] = Event("on_change_input", call'.node, call'.i,
                                call'.r, call'.new_r)
          /\ views'[k].clients[call'.r] = <<>>
          /\ events'[k + 1] = Event("on_change_input", call'.nested[1],
                                    call'.nested[2], events'[k + 1].r, call'.r)

\* after the call old_r is in the variable set, its owner, when it has one,
\* is in the node set, and the slots and the client lists agree
PruneCancelled ==
    /\ call'.r \in variables'
    /\ owner(call'.r) # NoOwner => owner(call'.r) \in nodes'
    /\ ClientListsMatch(node_inputs', outputs', nodes', variables', clients')

\* C21 (as claimed): when a change_input takes the last client of old_r and
\* a feature, inside on_change_input, gives old_r a new site with a
\* change_input of its own, then after the outer call has returned old_r is
\* in the variable set, its owner is in the node set, and the slots and
\* client lists agree.
C21_RereferenceCancelsPrune ==
    [][Rereferenced => PruneCancelled]_vars

\* C22: a change_input that passes its own tests on the consumer and the
\* type and then fails in the import of new_r (MissingInputError, or the
\* Exception of an ownership conflict or of a bad view_map) leaves every
\* slot, both membership sets and every client list as they were, so the
\* slots and the client lists still agree.
C22_FailedImportChangesNothing ==
    [][(/\ call'.op = "change_input"
        /\ result' \in {"MissingInputError", "Exception"}
        /\ call'.node = "output" \/ node_fgraph[call'.node] = "self")
       => /\ node_inputs' = node_inputs /\ outputs' = outputs
          /\ nodes' = nodes /\ variables' = variables /\ clients' = clients
          /\ ClientListsMatch(node_inputs', outputs', nodes', variables', clients')]_vars

\* the node set a feature keeps by adding on on_import and removing on
\* on_prune, after the first k events of ev, starting from the set S
RECURSIVE Tracked(_, _, _)
Tracked(ev, k, S) ==
    IF k = 0 THEN S
    ELSE LET T == Tracked(ev, k - 1, S)
         IN  CASE ev[k].name = "on_import" -> T \cup {ev[k].node}
               [] ev[k].name = "on_prune" -> T \ {ev[k].node}
               [] OTHER -> T

\* the events ev, dispatched on the graphs vw, account one to one for the way
\* from the node set S to the node set final: on_import names a node that
\* was not in the set and on_prune one that was, at every dispatch the
\* graph's node set is the tracked one, and so it is at the end
OneToOne(ev, vw, S, final) ==
    /\ \A k \in 1..Len(ev) :
          /\ ev[k].name = "on_import" => ev[k].node \notin Tracked(ev, k - 1, S)
          /\ ev[k].name = "on_prune" => ev[k].node \in Tracked(ev, k - 1, S)
          /\ vw[k].nodes = Tracked(ev, k, S)
    /\ final = Tracked(ev, Len(ev), S)

\* on_import(n) is dispatched with the producers of n's inputs in the node
\* set, on_prune(n) with no node of the node set consuming an output of n
InOrder(ev, vw) ==
    \A k \in 1..Len(ev) :
       /\ ev[k].name = "on_import"
            => \A r \in Range(vw[k].node_inputs[ev[k].node]) :
                  owner(r) # NoOwner => owner(r) \in vw[k].nodes
       /\ ev[k].name = "on_prune"
            => \A c \in vw[k].nodes : \A r \in Range(vw[k].node_inputs[c]) :
                  owner(r) # ev[k].node

\* C23 (as claimed): for a feature given to the constructor, the on_import and on_prune
\* events of the construction and of every later public call, whether it
\* returns or raises, match the insertions into and the removals from the
\* node set one to one; on_import comes for producers before consumers and
\* on_prune for consumers before producers; so the set kept by adding on
\* on_import and removing on on_prune is the node set after every call.
C23_EventsMirrorNodes ==
    /\ OneToOne(events, views, {}, nodes) /\ InOrder(events, views)
    /\ [][OneToOne(events', views', nodes, nodes') /\ InOrder(events', views')]_vars

\* the graphs met when change_input is applied to the sites snapshot[j..] in
\* turn, with nothing asserted between the calls: the graph each site is
\* reached with, then the graph the last call leaves
RECURSIVE Turns(_, _, _, _)
Turns(g, snapshot, j, new_r) ==
    IF ~Ok(g) \/ j > Len(snapshot) THEN <<g>>
    ELSE <<g>> \o Turns(change_input(g, snapshot[j][1], snapshot[j][2], new_r),
                        snapshot, j + 1, new_r)

\* whenever a site of the snapshot is reached, it holds r, its consumer is
\* "output" or in the node set, and r and its owner are still in the
\* membership sets
SnapshotSafe(turns, snapshot, r) ==
    \A j \in 1..Len(turns) :
       (j <= Len(snapshot) /\ Ok(turns[j]))
          => LET g == turns[j]
                 node == snapshot[j][1]
                 i == snapshot[j][2]
             IN  /\ Slot(g, node, i) = r
                 /\ node = "output" \/ node \in g.nodes
                 /\ r \in g.variables
                 /\ owner(r) # NoOwner => owner(r) \in g.nodes

\* the on_change_input events among ev
Rewirings(ev) == SelectSeq(ev, LAMBDA e : e.name = "on_change_input")

\* C24 (as claimed): a replace(r, new_r) that gets past its tests, with r in the variable
\* set and new_r another variable, does what change_input does on the sites
\* r.clients had at the start, one after the other: each of them holds r and
\* has its consumer in the graph when its turn comes, r and its owner are in
\* the membership sets until the last of them has been rewired, the loop's
\* assertion never fails, exactly those sites are rewired, in that order,
\* and the sites r.clients gained during the call still hold r.
C24_ReplaceSnapshotSafe ==
    [][(/\ call'.op = "replace" /\ call'.r # call'.new_r
        /\ call'.r \in variables /\ r_fgraph[call'.r] = "self"
        /\ type(call'.r) = type(call'.new_r))
       => \A turns \in {Turns(Self, clients[call'.r], 1, call'.new_r)} :
          \A fin \in {turns[Len(turns)]} :
          \A rew \in {Rewirings(events')} :
             LET r == call'.r
                 new_r == call'.new_r
                 snapshot == clients[r]
             IN  /\ SnapshotSafe(turns, snapshot, r)
                 /\ result' = (IF Ok(fin) THEN "ok" ELSE fin.err)
                 /\ node_inputs' = fin.node_inputs /\ outputs' = fin.outputs
                 /\ nodes' = fin.nodes /\ variables' = fin.variables
                 /\ clients' = fin.clients /\ events' = fin.events
                 /\ Len(rew) <= Len(snapshot)
                 /\ result' = "ok" => Len(rew) = Len(snapshot)
                 /\ \A j \in 1..Len(rew) :
                       rew[j] = Event("on_change_input", snapshot[j][1],
                                      snapshot[j][2], r, new_r)
                 /\ result' = "ok"
                       => \A site \in Range(clients'[r]) :
                             /\ ~Contains(snapshot, site)
                             /\ (IF site[1] = "output" THEN outputs'[site[2] + 1]
                                 ELSE node_inputs'[site[1]][site[2] + 1]) = r]_vars

====
